---- MODULE Spec2Model ----
(***************************************************************************)
(* MiniCPU: a zero-address stack processor (Harvard memories) and its      *)
(* two-pass assembler.                                                     *)
(*                                                                         *)
(* The repository holds two interpreters: the modular one (isa.py,         *)
(* assembler.py, cpu.py, driven by demo_program.py / main.py) and the      *)
(* single-file one (minicpu_lab1_lab3.py).  Both are modelled; the         *)
(* variable impl says which one a machine was constructed from.            *)
(*                                                                         *)
(* A source text is modelled after normalisation as a sequence of lines,   *)
(* a line being the sequence of its whitespace-separated tokens (the       *)
(* result of _clean followed by split); a blank line is <<>>.              *)
(***************************************************************************)
EXTENDS Integers, Sequences, FiniteSets, TLC

\* ------------------------------------------------------------------ bounds
MaxLines  == 2      \* length of the enumerated small sources
MaxCalls  == 2      \* assemble() calls made on one Assembler object
MaxPad    == 128    \* longest run of NOPs in the padded branch sources
MaxSteps  == 60     \* step() calls made on one machine
MaxCodeLen == 2     \* length of the hand-crafted code images
MaxDepth  == 3      \* values pushed before the operation in the OpProg sources
MaxWriteIdx == 1    \* highest index of its arrays the caller overwrites
MaxPush   == 2      \* values the caller pushes before the first step
MaxN      == 130    \* magnitude of the integers given to the signed-byte codec

\* ------------------------------------------------------------ opcode table
\* isa.py OPCODES (the same sixteen entries as in minicpu_lab1_lab3.py)
OPCODES ==
    ("NOP"   :> 0)  @@ ("HALT"  :> 1)  @@ ("PUSH0" :> 2)  @@ ("PUSH1" :> 3)  @@
    ("ADD"   :> 4)  @@ ("SUB"   :> 5)  @@ ("MUL"   :> 6)  @@ ("DUP"   :> 7)  @@
    ("SWAP"  :> 8)  @@ ("POP"   :> 9)  @@ ("NEXT"  :> 10) @@ ("SETIP" :> 11) @@
    ("JZ"    :> 12) @@ ("JMP"   :> 13) @@ ("LT"    :> 14) @@ ("OUT"   :> 15)

\* n & 0xFF on a Python int
And0xFF(n) == n % 256

\* to_signed_byte with the upper limit off by one (128 accepted)
to_signed_byte_Off(n) ==
    IF ~(-128 <= n /\ n <= 128)
    THEN [ok |-> FALSE]
    ELSE [ok |-> TRUE, val |-> And0xFF(n)]

\* isa.py to_signed_byte: ValueError outside -128..127, else n & 0xFF
to_signed_byte(n) ==
    IF ~(-128 <= n /\ n <= 127)
    THEN [ok |-> FALSE]
    ELSE [ok |-> TRUE, val |-> And0xFF(n)]

\* decoding that leaves byte 128 positive
DecodeSigned_Off(b) == IF b > 128 THEN b - 256 ELSE b

\* the interpreter's decoding of an operand byte: if off >= 128: off -= 256
DecodeSigned(b) == IF b >= 128 THEN b - 256 ELSE b

\* ---------------------------------------------------------------- tokens
\* str.upper() on the tokens used as mnemonics
Upper(t) ==
    CASE t = "nop"  -> "NOP"
      [] t = "jmp"  -> "JMP"
      [] t = "halt" -> "HALT"
      [] OTHER      -> t

\* line.endswith(':') for a line whose last token is t
EndsWithColon(t) == t \in {"a:", "b:", "loop:", "end:", "top:", ":"}

\* line[:-1].strip() for a one-token label line
StripColon(t) ==
    CASE t = "a:"    -> "a"
      [] t = "b:"    -> "b"
      [] t = "loop:" -> "loop"
      [] t = "end:"  -> "end"
      [] t = "top:"  -> "top"
      [] t = ":"     -> ""
      [] OTHER       -> t

\* int(parts[1]): the decimal literals of the token universe; anything else
\* raises ValueError
IntLiterals ==
    ("5" :> 5) @@ ("10" :> 10) @@ ("-128" :> -128) @@ ("127" :> 127) @@
    ("128" :> 128) @@ ("-129" :> -129) @@ ("0" :> 0)

IsLabelLine(line) == line # <<>> /\ EndsWithColon(line[Len(line)])
LabelName(line)   == StripColon(line[Len(line)])

\* -------------------------------------------------------------- assembler
\* The two passes are loops over the lines.  Each loop body is an operator
\* on the loop's state st (err = "none" while no exception was raised); the
\* loop itself (Pass1, Pass2) applies the body to lines lo..hi in order and
\* stops at the first error (it splits the range in halves only to keep the
\* evaluation shallow).

\* Body of the pass-1 loop of assemble: st = [err, labels, pc], labels being
\* self.labels.  On an error the labels stored so far remain.
Pass1Line(st, line) ==
    IF line = <<>> THEN st
    ELSE IF IsLabelLine(line) THEN
      LET label == LabelName(line) IN
        IF label = "" THEN [st EXCEPT !.err = "EmptyLabel"]
        ELSE IF label \in DOMAIN st.labels THEN [st EXCEPT !.err = "DuplicateLabel"]
        ELSE [st EXCEPT !.labels = (label :> st.pc) @@ @]
    ELSE
      LET mnem == Upper(line[1])
          pc1  == IF mnem = "PUSH" THEN st.pc + 2 ELSE st.pc
      IN IF mnem \in {"JZ", "JMP"} THEN [st EXCEPT !.pc = pc1 + 2]
         ELSE IF mnem \notin DOMAIN OPCODES
           THEN [st EXCEPT !.err = "UnknownMnemonic", !.pc = pc1]
         ELSE [st EXCEPT !.pc = pc1 + 1]

\* Body of the pass-2 loop of assemble: st = [err, labels, pc, code], code
\* being self.code.  On an error the bytes appended so far remain.
\* the immediate of a PUSH line in pass 2: range test, then imm & 0xFF
PushImm(imm) ==
    IF ~(-128 <= imm /\ imm <= 127) THEN [ok |-> FALSE]
    ELSE [ok |-> TRUE, val |-> And0xFF(imm)]

Pass2Line(st, line) ==
    IF line = <<>> \/ IsLabelLine(line) THEN st
    ELSE
      LET mnem == Upper(line[1]) IN
        IF mnem \in {"JZ", "JMP"} THEN
          IF Len(line) # 2 THEN [st EXCEPT !.err = "MalformedOperand"]
          ELSE IF line[2] \notin DOMAIN st.labels
            THEN [st EXCEPT !.err = "UnknownLabel"]
          ELSE
            LET next_pc == st.pc + 2
                off     == st.labels[line[2]] - next_pc
                code1   == Append(st.code, OPCODES[mnem])
                enc     == to_signed_byte(off)
            IN IF ~enc.ok THEN [st EXCEPT !.err = "RangeError", !.code = code1]
               ELSE [st EXCEPT !.code = Append(code1, enc.val), !.pc = @ + 2]
        ELSE IF mnem = "PUSH" THEN
          IF Len(line) # 2 THEN [st EXCEPT !.err = "MalformedOperand"]
          ELSE IF line[2] \notin DOMAIN IntLiterals
            THEN [st EXCEPT !.err = "BadIntegerLiteral"]
          ELSE
            LET imm == IntLiterals[line[2]]
                enc == PushImm(imm)
            IN IF ~enc.ok THEN [st EXCEPT !.err = "RangeError"]
               ELSE IF "PUSH" \notin DOMAIN OPCODES THEN [st EXCEPT !.err = "KeyError"]
               ELSE [st EXCEPT
                       !.code = Append(Append(@, OPCODES["PUSH"]), enc.val),
                       !.pc = @ + 2]
        ELSE [st EXCEPT !.code = Append(@, OPCODES[mnem]), !.pc = @ + 1]

\* Pass 1: for line in lines[lo..hi]: body, stopping at an error
RECURSIVE Pass1(_, _, _, _)
Pass1(lines, lo, hi, st) ==
    IF lo > hi \/ st.err # "none" THEN st
    ELSE IF lo = hi THEN Pass1Line(st, lines[lo])
    ELSE LET mid == (lo + hi) \div 2
             st1 == Pass1(lines, lo, mid, st)
         IN IF st1.err # "none" THEN st1 ELSE Pass1(lines, mid + 1, hi, st1)

\* Pass 2: for line in lines[lo..hi]: body, stopping at an error
RECURSIVE Pass2(_, _, _, _)
Pass2(lines, lo, hi, st) ==
    IF lo > hi \/ st.err # "none" THEN st
    ELSE IF lo = hi THEN Pass2Line(st, lines[lo])
    ELSE LET mid == (lo + hi) \div 2
             st1 == Pass2(lines, lo, mid, st)
         IN IF st1.err # "none" THEN st1 ELSE Pass2(lines, mid + 1, hi, st1)

\* Assembler.assemble on an object whose fields are (labels, code).
\* Result: the fields after the call and the outcome (err = "none": the
\* call returned self.code).
assemble(labels, code, src) ==
    LET p1 == Pass1(src, 1, Len(src),
                   [err |-> "none", labels |-> labels, pc |-> 0])
    IN IF p1.err # "none"
       THEN [err |-> p1.err, labels |-> p1.labels, code |-> code]
       ELSE LET p2 == Pass2(src, 1, Len(src),
                           [err |-> "none", labels |-> p1.labels, pc |-> 0,
                            code |-> <<>>])
            IN [err |-> p2.err, labels |-> p1.labels, code |-> p2.code]

\* ------------------------------------------------------------ interpreter
\* A machine m is the record of a MiniCPU object's mutable fields:
\*   pc, ip, acc, stack (CPUState), data, cycles, plus
\*   out    the OUT events printed so far,
\*   fault  "none" or the error the running step() raised,
\*   halted TRUE once a step() returned False.
NewMachine(d) ==
    [pc |-> 0, ip |-> 0, acc |-> 0, stack |-> <<>>, data |-> d, cycles |-> 0,
     out |-> <<>>, fault |-> "none", halted |-> FALSE]

Raise(m, f) == [m EXCEPT !.fault = f]

\* MiniCPU.push
push(m, v) == [m EXCEPT !.stack = Append(@, v)]

\* MiniCPU.pop: raises on an empty stack, else removes and returns the top
pop(m) ==
    IF m.stack = <<>>
    THEN [ok |-> FALSE, m |-> Raise(m, "StackUnderflow")]
    ELSE [ok |-> TRUE, v |-> m.stack[Len(m.stack)],
          m  |-> [m EXCEPT !.stack = SubSeq(@, 1, Len(@) - 1)]]

\* fetch incrementing pc before the range check
fetch_IncFirst(code, m) ==
    IF m.pc < 0 \/ m.pc >= Len(code)
    THEN [ok |-> FALSE, m |-> Raise([m EXCEPT !.pc = @ + 1], "CodeOutOfRange")]
    ELSE [ok |-> TRUE, v |-> code[m.pc + 1], m |-> [m EXCEPT !.pc = @ + 1]]

\* MiniCPU.fetch: raises when pc is outside the code, else reads code[pc]
\* and increments pc
fetch(code, m) ==
    IF m.pc < 0 \/ m.pc >= Len(code)
    THEN [ok |-> FALSE, m |-> Raise(m, "CodeOutOfRange")]
    ELSE [ok |-> TRUE, v |-> code[m.pc + 1], m |-> [m EXCEPT !.pc = @ + 1]]

\* b, a = self.pop(), self.pop()
pop2(m) ==
    LET pb == pop(m) IN
      IF ~pb.ok THEN [ok |-> FALSE, m |-> pb.m]
      ELSE LET pa == pop(pb.m) IN
        IF ~pa.ok THEN [ok |-> FALSE, m |-> pa.m]
        ELSE [ok |-> TRUE, a |-> pa.v, b |-> pb.v, m |-> pa.m]

ExecADD(m) == LET p == pop2(m) IN IF ~p.ok THEN p.m ELSE push(p.m, p.a + p.b)
ExecSUB(m) == LET p == pop2(m) IN IF ~p.ok THEN p.m ELSE push(p.m, p.a - p.b)
ExecMUL(m) == LET p == pop2(m) IN IF ~p.ok THEN p.m ELSE push(p.m, p.a * p.b)
ExecLT(m)  ==
    LET p == pop2(m) IN
      IF ~p.ok THEN p.m ELSE push(p.m, IF p.a < p.b THEN 1 ELSE 0)
ExecDUP(m) ==
    LET p == pop(m) IN IF ~p.ok THEN p.m ELSE push(push(p.m, p.v), p.v)
ExecSWAP(m) ==
    LET p == pop2(m) IN IF ~p.ok THEN p.m ELSE push(push(p.m, p.b), p.a)
\* POP keeping the discarded value in acc
ExecPOP_ToAcc(m) ==
    LET p == pop(m) IN IF ~p.ok THEN p.m ELSE [p.m EXCEPT !.acc = p.v]
ExecPOP(m) == pop(m).m

\* NEXT advancing ip before the range test
ExecNEXT_IncFirst(m) ==
    IF ~(0 <= m.ip /\ m.ip < Len(m.data))
    THEN Raise([m EXCEPT !.ip = @ + 1], "DataOutOfRange")
    ELSE push([m EXCEPT !.ip = @ + 1], m.data[m.ip + 1])

ExecNEXT(m) ==
    IF ~(0 <= m.ip /\ m.ip < Len(m.data))
    THEN Raise(m, "DataOutOfRange")
    ELSE push([m EXCEPT !.ip = @ + 1], m.data[m.ip + 1])

\* SETIP accepting one past len(data)
ExecSETIP_PastEnd(m) ==
    LET p == pop(m) IN
      IF ~p.ok THEN p.m
      ELSE IF ~(0 <= p.v /\ p.v <= Len(m.data) + 1) THEN Raise(p.m, "DataOutOfRange")
      ELSE [p.m EXCEPT !.ip = p.v]

ExecSETIP(m) ==
    LET p == pop(m) IN
      IF ~p.ok THEN p.m
      ELSE IF ~(0 <= p.v /\ p.v <= Len(m.data)) THEN Raise(p.m, "DataOutOfRange")
      ELSE [p.m EXCEPT !.ip = p.v]

ExecJZ(code, m) ==
    LET f == fetch(code, m) IN
      IF ~f.ok THEN f.m
      ELSE LET off == DecodeSigned(f.v)
               p   == pop(f.m)
           IN IF ~p.ok THEN p.m
              ELSE IF p.v = 0 THEN [p.m EXCEPT !.pc = @ + off]
              ELSE p.m

ExecJMP(code, m) ==
    LET f == fetch(code, m) IN
      IF ~f.ok THEN f.m
      ELSE [f.m EXCEPT !.pc = @ + DecodeSigned(f.v)]

ExecOUT(m) ==
    LET p == pop(m) IN
      IF ~p.ok THEN p.m
      ELSE [p.m EXCEPT !.acc = p.v, !.out = Append(@, p.v)]

ExecLOAD(m) ==
    LET p == pop(m) IN
      IF ~p.ok THEN p.m
      ELSE IF ~(0 <= p.v /\ p.v < Len(m.data)) THEN Raise(p.m, "DataOutOfRange")
      ELSE push(p.m, m.data[p.v + 1])

ExecPUSH(code, m) ==
    LET f == fetch(code, m) IN
      IF ~f.ok THEN f.m ELSE push(f.m, DecodeSigned(f.v))

ExecSTORE(m) ==
    LET pv == pop(m) IN
      IF ~pv.ok THEN pv.m
      ELSE LET pa == pop(pv.m) IN
        IF ~pa.ok THEN pa.m
        ELSE IF ~(0 <= pa.v /\ pa.v < Len(m.data))
          THEN Raise(pa.m, "DataOutOfRange")
        ELSE [pa.m EXCEPT !.data[pa.v + 1] = pv.v]

\* the body of the if/elif arm whose condition is opcode == OPCODES[key]
Exec(key, code, m) ==
    CASE key = "ADD"   -> ExecADD(m)
      [] key = "SUB"   -> ExecSUB(m)
      [] key = "MUL"   -> ExecMUL(m)
      [] key = "LT"    -> ExecLT(m)
      [] key = "DUP"   -> ExecDUP(m)
      [] key = "SWAP"  -> ExecSWAP(m)
      [] key = "POP"   -> ExecPOP(m)
      [] key = "NEXT"  -> ExecNEXT(m)
      [] key = "SETIP" -> ExecSETIP(m)
      [] key = "JZ"    -> ExecJZ(code, m)
      [] key = "JMP"   -> ExecJMP(code, m)
      [] key = "OUT"   -> ExecOUT(m)
      [] key = "LOAD"  -> ExecLOAD(m)
      [] key = "PUSH"  -> ExecPUSH(code, m)
      [] key = "STORE" -> ExecSTORE(m)
      [] key = "PUSH0" -> push(m, 0)
      [] key = "PUSH1" -> push(m, 1)
      [] OTHER         -> m          \* NOP / NOPE: trace only

\* the keys the if/elif chain of step() looks up in OPCODES, in order
ChainCpu ==
    <<"NOPE", "HALT", "PUSH0", "PUSH1", "ADD", "SUB", "MUL", "DUP", "SWAP",
      "POP", "NEXT", "SETIP", "JZ", "JMP", "LT", "OUT", "LOAD", "PUSH", "STORE">>
ChainLab ==
    <<"NOP", "HALT", "PUSH0", "PUSH1", "ADD", "SUB", "MUL", "DUP", "SWAP",
      "POP", "NEXT", "SETIP", "JZ", "JMP", "LT", "OUT">>

\* Evaluation of the chain for a fetched opcode: the key of the first arm
\* whose comparison is true; "KeyError" when an arm reached looks up a key
\* that OPCODES lacks; "UnknownOpcode" when the final else is reached.
RECURSIVE Dispatch(_, _, _)
Dispatch(chain, i, opcode) ==
    IF i > Len(chain) THEN "UnknownOpcode"
    ELSE IF chain[i] \notin DOMAIN OPCODES THEN "KeyError"
    ELSE IF opcode = OPCODES[chain[i]] THEN chain[i]
    ELSE Dispatch(chain, i + 1, opcode)

\* step counting the HALT step too
step_CountHalt(chain, code, m) ==
    LET f == fetch(code, m) IN
      IF ~f.ok THEN f.m
      ELSE LET key == Dispatch(chain, 1, f.v) IN
        IF key \in {"KeyError", "UnknownOpcode"} THEN Raise(f.m, key)
        ELSE IF key = "HALT" THEN [f.m EXCEPT !.halted = TRUE, !.cycles = @ + 1]
        ELSE LET r == Exec(key, code, f.m) IN
          IF r.fault # "none" THEN r
          ELSE [r EXCEPT !.cycles = @ + 1]

\* MiniCPU.step, given the chain of the implementation
step(chain, code, m) ==
    LET f == fetch(code, m) IN
      IF ~f.ok THEN f.m
      ELSE LET key == Dispatch(chain, 1, f.v) IN
        IF key \in {"KeyError", "UnknownOpcode"} THEN Raise(f.m, key)
        ELSE IF key = "HALT" THEN [f.m EXCEPT !.halted = TRUE]
        ELSE LET r == Exec(key, code, f.m) IN
          IF r.fault # "none" THEN r
          ELSE [r EXCEPT !.cycles = @ + 1]

StepCpu(code, m) == step(ChainCpu, code, m)     \* cpu.py
StepLab(code, m) == step(ChainLab, code, m)     \* minicpu_lab1_lab3.py

\* ------------------------------------------------------------------ inputs
\* demo_program.py DEMO_ASM, normalised
DEMO_ASM ==
    << <<"PUSH0">>, <<"SETIP">>, <<>>, <<"NEXT">>, <<"PUSH0">>, <<"SWAP">>, <<>>,
       <<"loop:">>, <<"DUP">>, <<"JZ", "end">>, <<>>, <<>>,
       <<"SWAP">>, <<"NEXT">>, <<"SWAP">>, <<"ADD">>, <<>>, <<>>,
       <<"SWAP">>, <<"PUSH1">>, <<"SUB">>, <<"JMP", "loop">>, <<>>,
       <<"end:">>, <<"POP">>, <<"OUT">>, <<"HALT">> >>

\* demo_program.py LOAD_TEST, normalised
LOAD_TEST ==
    << <<"PUSH", "5">>, <<"PUSH", "10">>, <<"STORE">>, <<>>,
       <<"PUSH", "5">>, <<"LOAD">>, <<"OUT">>, <<"HALT">> >>

Repeat(line, n) == [i \in 1..n |-> line]

\* a forward branch over k NOPs: the offset needed is k
PadFwd(br, k) ==
    (IF br = "JZ" THEN << <<"PUSH0">> >> ELSE <<>>) \o
    << <<br, "end">> >> \o Repeat(<<"NOP">>, k) \o << <<"end:">>, <<"HALT">> >>

\* a backward branch over k NOPs, reached by a forward one: the offsets
\* needed are k + 1 and -(k + 3)
PadBack(br, k) ==
    << <<"JMP", "end">>, <<"top:">>, <<"HALT">> >> \o Repeat(<<"NOP">>, k) \o
    << <<"end:">> >> \o
    (IF br = "JZ" THEN << <<"PUSH0">> >> ELSE <<>>) \o << <<br, "top">> >>

\* n values read from data, then one operation, then the stack printed
OpProg(n, op) ==
    Repeat(<<"NEXT">>, n) \o << <<op>>, <<"OUT">>, <<"OUT">>, <<"HALT">> >>

OneByteOps ==
    {"NOP", "PUSH0", "PUSH1", "ADD", "SUB", "MUL", "DUP", "SWAP", "POP",
     "NEXT", "SETIP", "LT", "OUT", "LOAD", "STORE"}

LineAlphabet ==
    { <<>>, <<"a:">>, <<":">>, <<"NOP">>, <<"nop">>, <<"HALT">>, <<"NEXT">>,
      <<"JMP", "a">>, <<"JZ", "a">>, <<"JMP">>, <<"JMP", "b">>, <<"FOO">>,
      <<"PUSH", "5">> }

SeqsUpTo(S, n) == UNION { [1..k -> S] : k \in 0..n }

Sources ==
    SeqsUpTo(LineAlphabet, MaxLines)
    \cup {DEMO_ASM, LOAD_TEST}
    \cup { PadFwd(br, k)  : br \in {"JMP", "JZ"}, k \in (MaxPad - 4)..MaxPad }
    \cup { PadBack(br, k) : br \in {"JMP", "JZ"}, k \in (MaxPad - 4)..MaxPad }
    \cup { OpProg(n, op)  : n \in 0..MaxDepth, op \in OneByteOps }

\* sources assembled on an object that has already assembled another one
FollowUps ==
    { << <<"JMP", "a">> >>, << <<"a:">>, <<"JMP", "a">> >>, << <<"NOP">> >>,
      << <<"b:">>, <<"FOO">> >>, << <<"NOP">>, <<"JMP", "a">> >> }

DataSets ==
    { <<>>, <<0>>, <<1, 7>>, <<2, 3>>, <<-1, 1>>, <<3, 1, 2, 0>>,
      <<4, 5, -2, 112, 7>>, <<0, 5, -2, 112, 7>>, <<1, -2, 112, 7, 0, 0>> }

ReuseData == { <<>> }

HandBytes == {1, 10, 12, 13, 16, 250, 254}
HandCodes ==
    SeqsUpTo(HandBytes, MaxCodeLen)
    \cup { <<OPCODES[k]>> : k \in {"ADD", "SUB", "MUL", "LT"} }
\* values the caller pushes on the stack of a hand-built machine
PushValues == {0, 3}

Impls == {"cpu", "lab"}

\* ------------------------------------------------------------------- state
VARIABLES
    phase,      \* "asm": the caller is assembling; "cpu": a machine runs
    asm,        \* the Assembler object: [labels, code]
    asm_calls,  \* assemble() calls made on it
    asm_src,    \* the source of its last assemble() call
    asm_ret,    \* outcome of that call: "none" (no call yet), "ok", or the error
    asm_prev,   \* the object, source and outcome before that call
    impl,       \* which interpreter the machine is: "cpu", "lab" ("none": no machine)
    caller,     \* the caller's arrays passed to MiniCPU(), as they are now: [code, data]
    given,      \* those arrays as they were when MiniCPU() was called
    code,       \* the machine's code memory
    cpu,        \* the machine's fields (see NewMachine)
    steps,      \* step() calls made on the machine
    before,     \* the machine's fields before its last step() call
    codec       \* the signed-byte codec's last input and results

vars == <<phase, asm, asm_calls, asm_src, asm_ret, asm_prev,
          impl, caller, given, code, cpu, steps, before, codec>>
asmVars == <<asm, asm_calls, asm_src, asm_ret, asm_prev>>
cpuVars == <<impl, caller, given, code, cpu, steps, before>>

\* __init__ keeping the caller's data list instead of copying it
CopiedAtInit_CodeOnly == {"code"}

\* the arguments MiniCPU.__init__ copies with [:] (the others would be the
\* caller's own list objects)
CopiedAtInit == {"code", "data"}

NoCodec == [n |-> 0, stage |-> "idle"]

\* Assembler.__init__
NewAssemblerObj == [labels |-> <<>>, code |-> <<>>]
NoCall == [asm |-> NewAssemblerObj, src |-> <<>>, ret |-> "none"]

Init ==
    /\ phase = "asm"
    /\ asm = NewAssemblerObj
    /\ asm_calls = 0
    /\ asm_src = <<>>
    /\ asm_ret = "none"
    /\ asm_prev = NoCall
    /\ impl = "none"
    /\ caller = [code |-> <<>>, data |-> <<>>]
    /\ given = [code |-> <<>>, data |-> <<>>]
    /\ code = <<>>
    /\ cpu = NewMachine(<<>>)
    /\ steps = 0
    /\ before = NewMachine(<<>>)
    /\ codec = NoCodec

\* asm = Assembler(), replacing an object that has been used
NewAssembler ==
    /\ phase = "asm"
    /\ asm_calls > 0
    /\ asm' = NewAssemblerObj
    /\ asm_calls' = 0
    /\ asm_src' = <<>>
    /\ asm_ret' = "none"
    /\ asm_prev' = NoCall
    /\ UNCHANGED <<phase, cpuVars, codec>>

\* asm.assemble(src)
Assemble(src) ==
    /\ phase = "asm"
    /\ asm_calls < MaxCalls
    /\ asm_calls = 0 \/ src = asm_src \/ src \in FollowUps
    /\ LET r == assemble(asm.labels, asm.code, src) IN
         /\ asm' = [labels |-> r.labels, code |-> r.code]
         /\ asm_ret' = IF r.err = "none" THEN "ok" ELSE r.err
    /\ asm_calls' = asm_calls + 1
    /\ asm_src' = src
    /\ asm_prev' = [asm |-> asm, src |-> asm_src, ret |-> asm_ret]
    /\ UNCHANGED <<phase, cpuVars, codec>>

\* code = asm.assemble(program); cpu = MiniCPU(code, data)
\* (demo_program.py assemble_and_run_demo): the machine is built on the code
\* a successful assemble() returned (of an Assembler object used before,
\* only with the data arrays of ReuseData)
Construct(i, d) ==
    /\ phase = "asm"
    /\ asm_ret = "ok"
    /\ asm_calls = 1 \/ d \in ReuseData
    /\ phase' = "cpu"
    /\ impl' = i
    /\ caller' = [code |-> asm.code, data |-> d]
    /\ given' = caller'
    /\ code' = asm.code
    /\ cpu' = NewMachine(d)
    /\ steps' = 0
    /\ before' = NewMachine(d)
    /\ UNCHANGED <<asmVars, codec>>

\* cpu = MiniCPU(code, data) on a hand-written code image
ConstructHand(i, c, d) ==
    /\ phase = "asm"
    /\ asm_calls = 0
    /\ phase' = "cpu"
    /\ impl' = i
    /\ caller' = [code |-> c, data |-> d]
    /\ given' = caller'
    /\ code' = c
    /\ cpu' = NewMachine(d)
    /\ steps' = 0
    /\ before' = NewMachine(d)
    /\ UNCHANGED <<asmVars, codec>>

\* between MiniCPU() and run(), the caller overwrites element i of the list
\* it passed as code (which = "code") or as data; a list the constructor
\* did not copy is the machine's own memory, and the code list of an
\* assembled program is the Assembler's own self.code, which assemble()
\* returns without copying
CallerWrite(which, i, v) ==
    /\ phase = "cpu"
    /\ steps = 0
    /\ caller = given
    /\ i \in 1..Len(caller[which])
    /\ caller[which][i] # v
    /\ caller' = [caller EXCEPT ![which][i] = v]
    /\ code' = IF which = "code" /\ "code" \notin CopiedAtInit THEN caller'.code ELSE code
    /\ cpu' = IF which = "data" /\ "data" \notin CopiedAtInit
              THEN [cpu EXCEPT !.data = caller'.data] ELSE cpu
    /\ asm' = IF which = "code" /\ asm_calls > 0
              THEN [asm EXCEPT !.code = caller'.code] ELSE asm
    /\ UNCHANGED <<phase, asm_calls, asm_src, asm_ret, asm_prev,
                   impl, given, steps, before, codec>>

\* the caller of a hand-built machine calls cpu.push(v) before the first step
Push(v) ==
    /\ phase = "cpu"
    /\ asm_calls = 0
    /\ steps = 0
    /\ caller = given
    /\ Len(cpu.stack) < MaxPush
    /\ cpu' = push(cpu, v)
    /\ before' = cpu'
    /\ UNCHANGED <<phase, asmVars, impl, caller, given, code, steps, codec>>

\* one iteration of run(): cpu.step()
Step ==
    /\ phase = "cpu"
    /\ cpu.fault = "none"
    /\ ~cpu.halted
    /\ steps < MaxSteps
    /\ cpu' = IF impl = "cpu" THEN StepCpu(code, cpu) ELSE StepLab(code, cpu)
    /\ before' = cpu
    /\ steps' = steps + 1
    /\ caller' = IF "data" \in CopiedAtInit THEN caller
                 ELSE [caller EXCEPT !.data = cpu'.data]
    /\ UNCHANGED <<phase, asmVars, impl, given, code, codec>>

\* the assembler encodes an integer n as a branch offset, by
\* to_signed_byte(n), or as a PUSH immediate
Encode(n, kind) ==
    /\ codec.stage = "idle"
    /\ codec' = [n |-> n, kind |-> kind, stage |-> "encoded",
                 enc |-> IF kind = "offset" THEN to_signed_byte(n) ELSE PushImm(n)]
    /\ UNCHANGED <<phase, asmVars, cpuVars>>

\* the byte it returned is decoded as step() decodes an operand byte
Decode ==
    /\ codec.stage = "encoded"
    /\ codec.enc.ok
    /\ codec' = [n |-> codec.n, kind |-> codec.kind, stage |-> "decoded",
                 enc |-> codec.enc,
                 dec |-> DecodeSigned(codec.enc.val)]
    /\ UNCHANGED <<phase, asmVars, cpuVars>>

Next ==
    \/ NewAssembler
    \/ \E src \in Sources : Assemble(src)
    \/ \E i \in Impls, d \in DataSets : Construct(i, d)
    \/ \E i \in Impls, c \in HandCodes, d \in DataSets : ConstructHand(i, c, d)
    \/ \E w \in {"code", "data"}, i \in 1..MaxWriteIdx, v \in {9} : CallerWrite(w, i, v)
    \/ \E v \in PushValues : Push(v)
    \/ Step

Spec == Init /\ [][Next]_vars

\* the signed-byte codec on its own: every integer of -MaxN..MaxN is
\* encoded and, when the encoder accepts it, decoded
NextCodec ==
    \/ \E n \in -MaxN..MaxN, kind \in {"offset", "imm"} : Encode(n, kind)
    \/ Decode

SpecCodec == Init /\ [][NextCodec]_vars

TypeOK ==
    /\ phase \in {"asm", "cpu"}
    /\ asm_calls \in 0..MaxCalls
    /\ steps \in 0..MaxSteps
    /\ impl \in Impls \cup {"none"}

\* ----------------------------------------------------- layout of a source
\* number of bytes pass 2 appends for a line
InstrSize(line) ==
    IF line = <<>> \/ IsLabelLine(line) THEN 0
    ELSE IF Upper(line[1]) \in {"JZ", "JMP", "PUSH"} THEN 2
    ELSE 1

\* bytes emitted for lines lo..hi
RECURSIVE SizeOf(_, _, _)
SizeOf(src, lo, hi) ==
    IF lo > hi THEN 0
    ELSE IF lo = hi THEN InstrSize(src[lo])
    ELSE LET mid == (lo + hi) \div 2
         IN SizeOf(src, lo, mid) + SizeOf(src, mid + 1, hi)

\* byte offset, in the emitted code, of what line i emits
OffsetOfLine(src, i) == SizeOf(src, 1, i - 1)

\* the well-formed branch lines of a source, and where their labels are declared
BranchLines(src) ==
    { i \in 1..Len(src) :
        /\ src[i] # <<>> /\ ~IsLabelLine(src[i])
        /\ Upper(src[i][1]) \in {"JZ", "JMP"} /\ Len(src[i]) = 2 }
DeclLines(src, L) ==
    { j \in 1..Len(src) : IsLabelLine(src[j]) /\ LabelName(src[j]) = L }

\* the machine runs the code assemble() returned for asm_src
RunsAssembled == phase = "cpu" /\ asm_calls >= 1
\* the last step() fetched its opcode
Fetched == phase = "cpu" /\ steps > 0 /\ before.pc >= 0 /\ before.pc < Len(code)
FetchedOp == code[before.pc + 1]
TableBytes == { OPCODES[k] : k \in DOMAIN OPCODES }
ByteOf(k) == IF k \in DOMAIN OPCODES THEN OPCODES[k] ELSE -1

RECURSIVE SumSeq(_, _, _)
SumSeq(d, lo, hi) == IF lo > hi THEN 0 ELSE d[lo] + SumSeq(d, lo + 1, hi)

\* ------------------------------------------------------------------ claims

\* C1: in a machine running the code assembled from an accepted source, a
\* step that executes a JZ or JMP line with the branch taken (JMP always, JZ
\* with 0 on top of the stack) leaves pc at the byte offset of the first
\* instruction after the declaration of the target label, whether declared
\* before or after the branch.
C1_BranchLandsOnTarget ==
    (RunsAssembled /\ steps > 0) =>
      \A i \in BranchLines(asm_src) : \A j \in DeclLines(asm_src, asm_src[i][2]) :
        ( /\ before.pc = OffsetOfLine(asm_src, i)
          /\ \/ Upper(asm_src[i][1]) = "JMP"
             \/ /\ before.stack # <<>>
                /\ before.stack[Len(before.stack)] = 0 )
        => cpu.pc = OffsetOfLine(asm_src, j)

\* C2: the sample sum program run on data = <<N, x1, ..., xN, ...>> never
\* faults, and once it has halted there is exactly one OUT event, the sum of
\* x1..xN, the stack is empty, acc is that sum and pc = len(code).
DemoData(d) == Len(d) >= 1 /\ d[1] >= 0 /\ Len(d) >= d[1] + 1
C2_DemoSum ==
    (RunsAssembled /\ asm_src = DEMO_ASM /\ DemoData(given.data)) =>
      /\ cpu.fault = "none"
      /\ cpu.halted =>
           LET sum == SumSeq(given.data, 2, given.data[1] + 1) IN
             /\ cpu.out = <<sum>>
             /\ cpu.stack = <<>>
             /\ cpu.acc = sum
             /\ cpu.pc = Len(code)

\* the code image the last assemble() returned, as it was on return: the
\* Assembler's self.code until a machine is built on it, and from then on
\* the value the constructor was given
ReturnedCode == IF phase = "asm" THEN asm.code ELSE given.code

\* C3: a second assemble() of the same source on the same Assembler object,
\* the first having succeeded, succeeds with the same bytes and the same
\* label table.
C3_AssembleTwice ==
    (asm_calls = 2 /\ asm_prev.ret = "ok" /\ asm_src = asm_prev.src) =>
      /\ asm_ret = "ok"
      /\ ReturnedCode = asm_prev.asm.code
      /\ asm.labels = asm_prev.asm.labels

\* C4: a failed assemble() leaves no partial output: the label table holds
\* no label stored by the failed call and the code output no byte emitted by it.
C4_AllOrNothing ==
    (asm_calls > 0 /\ asm_ret # "ok") =>
      /\ asm.labels = asm_prev.asm.labels
      /\ asm.code = asm_prev.asm.code \/ asm.code = <<>>

\* C5: a branch whose relative offset (label offset minus the offset of the
\* byte after the branch) is in -128..127 does not make assemble fail, one
\* whose offset is outside makes it fail with a range error, and in every
\* code image returned each branch operand byte decodes to exactly that offset.
Required(i) == asm.labels[asm_src[i][2]] - (OffsetOfLine(asm_src, i) + 2)
C5_BranchRange ==
    asm_calls > 0 =>
      /\ asm_ret = "ok" =>
           \A i \in BranchLines(asm_src) :
             /\ asm_src[i][2] \in DOMAIN asm.labels
             /\ Required(i) \in -128..127
             /\ ReturnedCode[OffsetOfLine(asm_src, i) + 1] = OPCODES[Upper(asm_src[i][1])]
             /\ DecodeSigned(ReturnedCode[OffsetOfLine(asm_src, i) + 2]) = Required(i)
      /\ asm_ret = "RangeError" =>
           \E i \in BranchLines(asm_src) :
             /\ asm_src[i][2] \in DOMAIN asm.labels
             /\ Required(i) \notin -128..127
             /\ \A k \in BranchLines(asm_src) : k < i => Required(k) \in -128..127

\* C5 witness: a source with a branch needing offset 127 was assembled, and
\* so was one with a branch needing -128
C5_Witness ==
    /\ asm_calls > 0 /\ asm_ret = "ok"
    /\ \E i \in BranchLines(asm_src) : Required(i) = 127

\* C6: a popping instruction executed on a stack with fewer values than it
\* needs fails with StackUnderflow, the stack being empty at the failing pop.
Needs ==
    ("ADD" :> 2) @@ ("SUB" :> 2) @@ ("MUL" :> 2) @@ ("SWAP" :> 2) @@ ("LT" :> 2) @@
    ("STORE" :> 2) @@ ("DUP" :> 1) @@ ("POP" :> 1) @@ ("SETIP" :> 1) @@
    ("JZ" :> 1) @@ ("OUT" :> 1) @@ ("LOAD" :> 1)
C6_PopUnderflow ==
    Fetched =>
      \A k \in DOMAIN Needs :
        ( /\ FetchedOp = ByteOf(k)
          /\ Len(before.stack) < Needs[k]
          /\ k = "JZ" => before.pc + 1 < Len(code) )
        => /\ cpu.fault = "StackUnderflow"
           /\ cpu.stack = <<>>

\* C7: NEXT executed with ip = len(data) fails with DataOutOfRange and pushes
\* nothing; SETIP of v = len(data) succeeds and sets ip = len(data); SETIP of
\* v < 0 or v > len(data) fails and leaves ip unchanged.
C7_DataPointerEdge ==
    Fetched =>
      /\ (FetchedOp = ByteOf("NEXT") /\ before.ip = Len(before.data)) =>
           /\ cpu.fault = "DataOutOfRange"
           /\ cpu.stack = before.stack
      /\ (FetchedOp = ByteOf("SETIP") /\ before.stack # <<>>) =>
           LET v == before.stack[Len(before.stack)] IN
             IF 0 <= v /\ v <= Len(before.data)
             THEN cpu.fault = "none" /\ cpu.ip = v
             ELSE cpu.fault = "DataOutOfRange" /\ cpu.ip = before.ip

\* C8: the extended program PUSH 5; PUSH 10; STORE; PUSH 5; LOAD; OUT; HALT
\* assembles, and run on a data array with more than 5 elements it halts
\* with data[5] = 10 and the single OUT event 10.
C8_LoadStore ==
    /\ (asm_calls = 1 /\ asm_src = LOAD_TEST) => asm_ret = "ok"
    /\ (RunsAssembled /\ asm_src = LOAD_TEST /\ Len(given.data) > 5) =>
         /\ cpu.fault = "none"
         /\ cpu.halted => cpu.data[6] = 10 /\ cpu.out = <<10>>

\* C9: every key step() looks up and every mnemonic the assembler emits is a
\* key of the opcode table, distinct keys have distinct bytes, the extended
\* opcodes lie outside 0x00..0x0F, and a step on a table opcode reaches that
\* opcode's handler (it raises neither KeyError nor UnknownOpcode).
DispatchKeys ==
    {"NOP", "HALT", "PUSH0", "PUSH1", "ADD", "SUB", "MUL", "DUP", "SWAP", "POP",
     "NEXT", "SETIP", "JZ", "JMP", "LT", "OUT", "LOAD", "STORE", "PUSH"}
C9_ClosedTable ==
    Fetched =>
      /\ \A k \in DispatchKeys : k \in DOMAIN OPCODES
      /\ impl = "cpu" => \A n \in 1..Len(ChainCpu) : ChainCpu[n] \in DOMAIN OPCODES
      /\ \A k1, k2 \in DOMAIN OPCODES : k1 # k2 => OPCODES[k1] # OPCODES[k2]
      /\ \A k \in {"LOAD", "STORE", "PUSH"} \cap DOMAIN OPCODES : OPCODES[k] \notin 0..15
      /\ FetchedOp \in TableBytes => cpu.fault \notin {"KeyError", "UnknownOpcode"}

\* C10 as stated: every step() that completes without a fault, HALT
\* included, increments the step counter by exactly one.
C10_Original ==
    (phase = "cpu" /\ steps > 0 /\ cpu.fault = "none") =>
      cpu.cycles = before.cycles + 1

\* C10 amended: a step() that completes without a fault increments the step
\* counter by exactly one unless the opcode is HALT, which leaves it
\* unchanged; a faulting step leaves it unchanged; so the counter never
\* decreases and counts the completed non-HALT steps.
C10_StepCounter ==
    (phase = "cpu" /\ steps > 0) =>
      /\ (cpu.fault = "none" /\ ~cpu.halted) => cpu.cycles = before.cycles + 1
      /\ (cpu.fault = "none" /\ cpu.halted) => cpu.cycles = before.cycles
      /\ cpu.fault # "none" => cpu.cycles = before.cycles
      /\ cpu.cycles >= before.cycles
      /\ cpu.cycles = steps - (IF cpu.fault # "none" \/ cpu.halted THEN 1 ELSE 0)

\* C10 witness: a HALT step completed after counted steps
C10_Witness ==
    /\ phase = "cpu" /\ steps > 1 /\ cpu.fault = "none" /\ cpu.halted
    /\ cpu.cycles = before.cycles /\ cpu.cycles = steps - 1

\* C11: step() reports False exactly when the opcode it fetched is HALT and
\* True for every other table opcode that executes without a fault; the
\* state returned after HALT has pc one past the HALT byte and ip, acc, the
\* stack and data memory are as before the step; a run that ended did so on
\* a HALT step or on a fault.
C11_HaltOnly ==
    Fetched =>
      /\ FetchedOp = ByteOf("HALT") =>
           /\ cpu.halted /\ cpu.fault = "none"
           /\ cpu.pc = before.pc + 1
           /\ cpu.ip = before.ip /\ cpu.acc = before.acc
           /\ cpu.stack = before.stack /\ cpu.data = before.data
      /\ cpu.halted => FetchedOp = ByteOf("HALT")
      /\ (FetchedOp \in TableBytes /\ FetchedOp # ByteOf("HALT")) =>
           cpu.fault \notin {"KeyError", "UnknownOpcode"}

\* C12: a machine running a code image returned by assemble never raises
\* UnknownOpcode: every opcode it fetches is at the offset of an instruction
\* of the source and is a byte of the opcode table.
InstrOffsets(src) ==
    { OffsetOfLine(src, i) : i \in { k \in 1..Len(src) : InstrSize(src[k]) > 0 } }
C12_NoUnknownOpcode ==
    RunsAssembled =>
      /\ cpu.fault # "UnknownOpcode"
      /\ Fetched => /\ before.pc \in InstrOffsets(asm_src)
                    /\ FetchedOp \in TableBytes

\* C13: the machine works on copies of the caller's arrays: a step() never
\* changes the caller's code or data array, and a change the caller makes to
\* its arrays after construction changes neither the machine's code memory
\* nor its data memory nor any of its registers.
C13_CopiesArrays ==
    [][ /\ steps' = steps + 1 => caller' = caller
        /\ (phase = "cpu" /\ steps' = steps /\ caller' # caller) =>
             (code' = code /\ cpu' = cpu) ]_vars

\* C13 witness: the caller overwrote data[0] after construction and the
\* machine then read the original value with NEXT
C13_Witness ==
    /\ phase = "cpu" /\ steps > 0 /\ cpu.fault = "none"
    /\ caller.data # given.data /\ caller.data[1] # given.data[1]
    /\ code = given.code /\ cpu.data = given.data
    /\ before.ip = 0 /\ cpu.ip = 1
    /\ cpu.stack = Append(before.stack, given.data[1])

\* C14: in pass 1 each JZ, JMP and immediate PUSH line advances the byte
\* cursor by exactly 2 and every other instruction line by exactly 1, so
\* that after a successful assemble every label declared in the source is
\* recorded at the number of bytes emitted before its declaration and the
\* final pass-1 cursor is the length of the emitted code.
C14_Pass1Cursor ==
    asm_calls > 0 =>
      LET src == asm_src
          st0 == [err |-> "none", labels |-> asm_prev.asm.labels, pc |-> 0]
      IN /\ \A i \in 1..Len(src) :
              (InstrSize(src[i]) > 0 /\ Upper(src[i][1]) \in DispatchKeys) =>
                LET r == Pass1Line([st0 EXCEPT !.pc = OffsetOfLine(src, i)], src[i])
                IN /\ r.err = "none"
                   /\ r.pc = OffsetOfLine(src, i)
                             + (IF Upper(src[i][1]) \in {"JZ", "JMP", "PUSH"} THEN 2 ELSE 1)
         /\ asm_ret = "ok" =>
              /\ \A j \in 1..Len(src) :
                   IsLabelLine(src[j]) =>
                     asm.labels[LabelName(src[j])] = OffsetOfLine(src, j)
              /\ Pass1(src, 1, Len(src), st0).pc = Len(asm.code)

\* C15: every fetch reads code[pc] with 0 <= pc < len(code): a step whose
\* opcode fetch finds pc outside that range faults with CodeOutOfRange and
\* changes nothing else, pc included; so does the operand fetch of JZ, JMP
\* or PUSH in the last byte, pc staying one past the opcode; each successful
\* fetch adds exactly 1 to pc.
C15_FetchInRange ==
    (phase = "cpu" /\ steps > 0) =>
      IF before.pc < 0 \/ before.pc >= Len(code)
      THEN cpu = Raise(before, "CodeOutOfRange")
      ELSE
        LET twoByte == /\ FetchedOp \in {ByteOf("JZ"), ByteOf("JMP"), ByteOf("PUSH")}
                       /\ cpu.fault # "KeyError"
        IN IF twoByte /\ before.pc + 1 >= Len(code)
           THEN cpu = Raise([before EXCEPT !.pc = @ + 1], "CodeOutOfRange")
           ELSE /\ cpu.fault # "CodeOutOfRange"
                /\ ~twoByte => cpu.pc = before.pc + 1
                /\ twoByte =>
                     cpu.pc \in {before.pc + 2,
                                 before.pc + 2 + DecodeSigned(code[before.pc + 2])}

\* C15 witness: a branch took pc below 0 and the next fetch faulted, pc unchanged
C15_Witness ==
    /\ phase = "cpu" /\ steps > 1
    /\ before.pc < 0
    /\ cpu.fault = "CodeOutOfRange" /\ cpu.pc = before.pc

\* C16: in every machine state 0 <= ip <= len(data) and the length of data
\* memory is the one given at construction; a NEXT that completes read
\* data[ip] with 0 <= ip < len(data); the LOAD and STORE handlers applied to
\* the state fault with DataOutOfRange when the popped address is outside
\* [0, len(data)) and otherwise read or write exactly data[addr], keeping
\* the length.
C16_DataInRange ==
    phase = "cpu" =>
      /\ 0 <= cpu.ip /\ cpu.ip <= Len(cpu.data)
      /\ Len(cpu.data) = Len(given.data)
      /\ (Fetched /\ FetchedOp = ByteOf("NEXT") /\ cpu.fault = "none") =>
           /\ 0 <= before.ip /\ before.ip < Len(before.data)
           /\ cpu.stack = Append(before.stack, before.data[before.ip + 1])
      /\ (cpu.fault = "none" /\ Len(cpu.stack) >= 1) =>
           LET addr == cpu.stack[Len(cpu.stack)]
               r    == ExecLOAD(cpu)
           IN IF 0 <= addr /\ addr < Len(cpu.data)
              THEN /\ r.fault = "none" /\ r.data = cpu.data
                   /\ r.stack[Len(r.stack)] = cpu.data[addr + 1]
              ELSE r.fault = "DataOutOfRange" /\ r.data = cpu.data
      /\ (cpu.fault = "none" /\ Len(cpu.stack) >= 2) =>
           LET addr == cpu.stack[Len(cpu.stack) - 1]
               val  == cpu.stack[Len(cpu.stack)]
               r    == ExecSTORE(cpu)
           IN IF 0 <= addr /\ addr < Len(cpu.data)
              THEN /\ r.fault = "none"
                   /\ r.data = [cpu.data EXCEPT ![addr + 1] = val]
              ELSE r.fault = "DataOutOfRange" /\ r.data = cpu.data

\* C16 witness: SETIP moved ip to len(data) of a non-empty data memory
C16_Witness ==
    /\ Fetched /\ FetchedOp = ByteOf("SETIP") /\ cpu.fault = "none"
    /\ Len(cpu.data) > 0 /\ cpu.ip = Len(cpu.data) /\ before.ip # cpu.ip

\* C17: ADD, SUB, MUL and LT executed on a stack <<..., a, b>> replace a and
\* b by a+b, a-b, a*b and (1 if a < b else 0); the values beneath are
\* unchanged and so are ip, acc and data memory.
ArithOps == {"ADD", "SUB", "MUL", "LT"}
ArithResult(k, a, b) ==
    CASE k = "ADD" -> a + b
      [] k = "SUB" -> a - b
      [] k = "MUL" -> a * b
      [] k = "LT"  -> IF a < b THEN 1 ELSE 0
C17_OperandOrder ==
    Fetched =>
      \A k \in ArithOps :
        (FetchedOp = ByteOf(k) /\ Len(before.stack) >= 2) =>
          LET n == Len(before.stack)
              a == before.stack[n - 1]
              b == before.stack[n]
          IN /\ cpu.fault = "none"
             /\ cpu.stack = Append(SubSeq(before.stack, 1, n - 2), ArithResult(k, a, b))
             /\ cpu.ip = before.ip /\ cpu.acc = before.acc
             /\ cpu.data = before.data

\* C18: JZ at offset p whose operand byte decodes to s pops exactly one
\* value and leaves pc = p + 2 + s when that value is 0 and pc = p + 2
\* otherwise; JMP at p pops nothing and leaves pc = p + 2 + s; neither
\* changes ip, acc or data memory.
C18_BranchPc ==
    (Fetched /\ before.pc + 1 < Len(code)) =>
      LET p == before.pc
          s == DecodeSigned(code[p + 2])
          n == Len(before.stack)
      IN /\ FetchedOp = ByteOf("JMP") =>
              /\ cpu.fault = "none"
              /\ cpu.pc = p + 2 + s
              /\ cpu.stack = before.stack
              /\ cpu.ip = before.ip /\ cpu.acc = before.acc
              /\ cpu.data = before.data
         /\ (FetchedOp = ByteOf("JZ") /\ n >= 1) =>
              /\ cpu.fault = "none"
              /\ cpu.stack = SubSeq(before.stack, 1, n - 1)
              /\ cpu.pc = IF before.stack[n] = 0 THEN p + 2 + s ELSE p + 2
              /\ cpu.ip = before.ip /\ cpu.acc = before.acc
              /\ cpu.data = before.data

\* C19: for every integer n in -128..127 the assembler's encoding of n, as
\* a branch offset and as a PUSH immediate alike, is a byte in 0..255 that
\* the interpreter's decoding (subtract 256 when the byte is >= 128) takes
\* back to n; for n outside -128..127 the encoder fails.
C19_CodecInverse ==
    codec.stage # "idle" =>
      IF codec.n \in -128..127
      THEN /\ codec.enc.ok
           /\ codec.enc.val \in 0..255
           /\ codec.stage = "decoded" => codec.dec = codec.n
      ELSE ~codec.enc.ok

\* C19 witness: -128 went through the PUSH immediate encoding and came back
C19_Witness ==
    /\ codec.stage = "decoded" /\ codec.kind = "imm"
    /\ codec.n = -128 /\ codec.enc.val = 128 /\ codec.dec = -128

\* C20: a run of the sample sum program ends for every data array: within
\* 10 * N + 10 steps on HALT when data[0] = N with 0 <= N <= len(data) - 1,
\* and otherwise within 10 * len(data) steps on a DataOutOfRange fault
\* raised by NEXT with ip = len(data); it raises no other fault.
DemoStepBound(d) ==
    IF DemoData(d) THEN 10 * d[1] + 10
    ELSE IF d = <<>> THEN 3 ELSE 10 * (Len(d) - 1) + 9
C20_DemoTerminates ==
    (RunsAssembled /\ asm_calls = 1 /\ asm_src = DEMO_ASM) =>
      /\ steps <= DemoStepBound(given.data)
      /\ cpu.fault \in {"none", "DataOutOfRange"}
      /\ cpu.halted => DemoData(given.data)
      /\ cpu.fault = "DataOutOfRange" =>
           /\ ~DemoData(given.data)
           /\ Fetched /\ FetchedOp = ByteOf("NEXT")
           /\ before.ip = Len(before.data)
      /\ steps = DemoStepBound(given.data) =>
           IF DemoData(given.data) THEN cpu.halted /\ cpu.fault = "none"
           ELSE cpu.fault = "DataOutOfRange"

\* C21: a step() that ends in a fault leaves data memory, acc, ip and the
\* step counter as they were before the step and emits no OUT event; only
\* pc and the operand stack may differ, pc by the bytes fetched and the
\* stack by the values popped before the fault.
C21_FaultFrame ==
    (phase = "cpu" /\ steps > 0 /\ cpu.fault # "none") =>
      /\ cpu.data = before.data
      /\ cpu.acc = before.acc
      /\ cpu.ip = before.ip
      /\ cpu.cycles = before.cycles
      /\ cpu.out = before.out
      /\ ~cpu.halted
      /\ cpu.pc \in {before.pc, before.pc + 1, before.pc + 2}
      /\ \E n \in 0..Len(before.stack) : cpu.stack = SubSeq(before.stack, 1, n)

\* C21 witness: ADD on a one-element stack faulted after removing the
\* element, in a machine that had already moved ip and counted a step
C21_Witness ==
    /\ Fetched /\ FetchedOp = ByteOf("ADD")
    /\ Len(before.stack) = 1 /\ cpu.stack = <<>>
    /\ cpu.fault = "StackUnderflow"
    /\ cpu.pc = before.pc + 1
    /\ before.ip > 0 /\ before.cycles > 0

\* C22: acc is written only by OUT: in every machine state acc is the value
\* of the last OUT event, or 0 when there is none; a completed OUT step
\* appends the value it popped to the OUT events and sets acc to it, and
\* every other step leaves both the OUT events and acc as they were.
C22_AccOnlyByOut ==
    phase = "cpu" =>
      /\ cpu.acc = IF cpu.out = <<>> THEN 0 ELSE cpu.out[Len(cpu.out)]
      /\ steps > 0 =>
           IF Fetched /\ FetchedOp = ByteOf("OUT") /\ cpu.fault = "none"
           THEN /\ before.stack # <<>>
                /\ cpu.out = Append(before.out, before.stack[Len(before.stack)])
                /\ cpu.acc = before.stack[Len(before.stack)]
                /\ cpu.stack = SubSeq(before.stack, 1, Len(before.stack) - 1)
           ELSE /\ cpu.out = before.out
                /\ cpu.acc = before.acc

\* C22 witness: a second OUT replaced a different value in acc
C22_Witness ==
    /\ Fetched /\ FetchedOp = ByteOf("OUT") /\ cpu.fault = "none"
    /\ Len(cpu.out) = 2 /\ cpu.out[1] # cpu.out[2]
    /\ before.acc = cpu.out[1] /\ cpu.acc = cpu.out[2]

====
